---- MODULE Spec2Model ----
(***************************************************************************)
(* Model of the ARM PMU event-counter library (perfmon.h, perfmon.c).      *)
(*                                                                         *)
(* A 32-bit register that the code treats as a bit mask (PMCNTENSET,       *)
(* PMCEID0, PMCEID1) or as a count (PMEVCNTRn) is the set of the positions *)
(* of its 1 bits, so that 0 is {}, 1 is {0} and 0xFFFFFFFF is 0 .. 31; a   *)
(* 64-bit value is a set of positions in 0 .. 63.  An event-type register  *)
(* (PMEVTYPERn) is a natural.  PMCR is the record of its N field and its   *)
(* flag bits.  The operators take the counter bank b they work on, so that *)
(* a call can be evaluated on the bank before it as well as after it.      *)
(* The functions that also touch PMCR, PMUSERENR, the cycle counter or the *)
(* snapshot of perfmon_state.c take the whole machine m, a record with the *)
(* fields of the bank and those registers and globals.  captured is what   *)
(* the registers held when pmu_load was called, kept for the claims.       *)
(* A read that can return more than one value (an unimplemented register,  *)
(* an undefined shift) is the set of the values it can return.             *)
(***************************************************************************)
EXTENDS Integers, FiniteSets, Sequences, TLC

VARIABLES pmcr, pmcnten, pmevtyper, pmevcntr, pmceid0, pmceid1, last,
          pmuserenr, pmccntr,
          state_pmcr, state_pmcnten, state_pmuserenr, state_pmevtype,
          captured

vars == <<pmcr, pmcnten, pmevtyper, pmevcntr, pmceid0, pmceid1, last,
          pmuserenr, pmccntr,
          state_pmcr, state_pmcnten, state_pmuserenr, state_pmevtype, captured>>

regs == <<pmcr, pmcnten, pmevtyper, pmevcntr, pmceid0, pmceid1>>

\* the snapshot globals of perfmon_state.c
snapshot == <<state_pmcr, state_pmcnten, state_pmuserenr, state_pmevtype>>

\* the counter bank: enable mask, event-type registers, count registers
bank == [en |-> pmcnten, ty |-> pmevtyper, cn |-> pmevcntr]

\* the machine: the bank, the PMCR flags, PMUSERENR, the cycle counter and
\* the snapshot globals
machine ==
    [en |-> pmcnten, ty |-> pmevtyper, cn |-> pmevcntr,
     cr |-> pmcr.flags, ue |-> pmuserenr, cc |-> pmccntr,
     state_pmcr |-> state_pmcr, state_pmcnten |-> state_pmcnten,
     state_pmuserenr |-> state_pmuserenr, state_pmevtype |-> state_pmevtype]

----------------------------------------------------------------------------
(* Bounds of the model *)

\* largest number of event counters PMCR.N reports in the model
MaxN == 3

\* largest number of event counters where the snapshot is followed too
MaxNState == 2

\* largest number of event counters where the event-type registers hold
\* bits above the event field
MaxNTyper == 2

\* largest content of bits 31:10 of an event-type register at start
MaxTyperHigh == 2

----------------------------------------------------------------------------
(* Program constants *)

EVT_L1D_CACHE_REFILL == 3

EVT_L1D_CACHE == 4

EVT_CHAIN == 30

PMU_EVENTFLAG_64BIT == 1

PMU_RETURN_SUCCESS == 0

PMU_RETURN_EVENT_NO_WATCH == -1

PMU_RETURN_EVENT_NO_AVAIL == -2

PMU_RETURN_NO_OPEN_SLOT == -3

PMU_RETURN_EVENT_ALREADY == -4

PMU_RETURN_BAD_PTR == -5

\* width of the registers and of unsigned / int
WordBits == 32

\* capacity of state_pmevtype and number of arms of the register switches
NEVENTS_ARCH_MAX == 8

\* largest value of the 5-bit field PMCR.N (0b11111)
PMCR_NEVENTS_MAX == 31

\* the PMCR bits, as masks
PMCR_ENABLE_COUNTERS == {0}

PMCR_EVENT_COUNTER_RESET == {1}

PMCR_CYCLE_COUNTER_RESET == {2}

PMCR_CYCLE_COUNTER_64_BITS == {6}

Word == 0 .. (WordBits - 1)

\* 0xFFFFFFFF
MaxU32 == Word

Zero == {}

One == {0}

\* "nothing was stored through the value pointer"
NoValue == {0 - 1}

----------------------------------------------------------------------------
(* The values the model draws from *)

\* event ids passed to the public functions
Events == {EVT_L1D_CACHE_REFILL, EVT_L1D_CACHE, EVT_CHAIN}

\* contents of an event-type register at start
TyperVals == {EVT_L1D_CACHE_REFILL, EVT_L1D_CACHE, EVT_CHAIN}

\* raw counts of counter n at start and arriving at the register level:
\* zero or 0xFFFFFFFF in an even counter, zero or one in an odd counter
CountVals(n) == IF n % 2 = 0 THEN {Zero, MaxU32} ELSE {Zero, One}

Flags == {0, PMU_EVENTFLAG_64BIT}

\* the value pointer of a read: FALSE is the null pointer, TRUE points to
\* storage of the caller
NullPtr == FALSE

Ptrs == BOOLEAN

Slots == 0 .. (MaxN - 1)

\* event ids written to an event-type register directly: none, one, and all
\* of the six bits of an id in 0..63
TypedEvents == {0, EVT_L1D_CACHE_REFILL, 63}

\* contents of an event-type register with bits above the event field: an
\* event id in bits 9:0 and h in bits 31:10
TyperContents == {e + h * 1024 : e \in TypedEvents, h \in 0 .. MaxTyperHigh}

----------------------------------------------------------------------------
(* C integer operators on bit masks *)

\* x << i on a 32-bit mask: bits shifted out of the word are lost
Shl(x, i) == {b + i : b \in x} \cap Word

\* (x == 0) as a C int: the mask of 1 (bit 0) when x is zero, else of 0
EqZero(x) == IF x = {} THEN {0} ELSE {}

\* C truth of a mask
NonZero(x) == x # {}

Min(S) == CHOOSE m \in S : \A k \in S : m <= k

----------------------------------------------------------------------------
(* Register port: perfmon.h *)

pmu_nevents == pmcr.N

pmcntenset_read(b) == b.en

\* Bits 0-30 correspond to event counters, if available; bit 31 to the
\* cycle counter.  The bit of a counter that is not there ignores writes.
PMCNTEN_CYCLE_CTR == {31}

PmcntenBits == (0 .. (pmu_nevents - 1)) \cup PMCNTEN_CYCLE_CTR

\* PMCNTENSET: a written 1 enables, a written 0 does nothing
pmcntenset_write(b, x) == [b EXCEPT !.en = @ \cup (x \cap PmcntenBits)]

\* PMCNTENCLR: a written 1 disables, a written 0 does nothing
pmcntenclr_write(b, x) == [b EXCEPT !.en = @ \ x]

pmcnten_enable(b, n) == pmcntenset_write(b, Shl({0}, n))

pmcnten_disable(b, n) == pmcntenclr_write(b, Shl({0}, n))

\* the possible results of reading event-type register n: the register
\* when counter n is implemented; otherwise the read is of an unimplemented
\* register (or of the uninitialized local when the switch has no case)
\* and any value may come back
pmevtyper_read(b, n) ==
    IF n < pmu_nevents /\ n < NEVENTS_ARCH_MAX THEN {b.ty[n]} ELSE TyperVals

\* the switch has an arm for n < NEVENTS_ARCH_MAX only; a counter that is
\* not implemented ignores the write.  The macros PMEVTYPER_WRITE and
\* PMEVCNTR_WRITE spell the access MRC with the value as an input operand;
\* the port is taken as the register write its name and operand say.
pmevtyper_write(b, n, event) ==
    IF n < pmu_nevents /\ n < NEVENTS_ARCH_MAX THEN [b EXCEPT !.ty[n] = event] ELSE b

\* the possible results of reading event count register n
pmevcntr_read(b, n) ==
    IF n < pmu_nevents /\ n < NEVENTS_ARCH_MAX THEN {b.cn[n]} ELSE CountVals(n)

pmevcntr_write(b, n, count) ==
    IF n < pmu_nevents /\ n < NEVENTS_ARCH_MAX THEN [b EXCEPT !.cn[n] = count] ELSE b

\* mask = (1 << 11) - 1: bits 10:0 of the register
pmevtyper_get(b, n) == {v % 2048 : v \in pmevtyper_read(b, n)}

\* mask = (~0) << 10; event |= (old & mask): bits 31:10 of the register are
\* kept.  The events written are below 2^10, so the bitwise or is the sum.
pmevtyper_set(b, n, event) ==
    pmevtyper_write(b, n, event + (b.ty[n] \div 1024) * 1024)

pmevcntr_reset(b, n) == pmevcntr_write(b, n, Zero)

\* pmcnten_enable(n); pmevtyper_set(n, event); pmevcntr_reset(n)
pmu_event_set(b, n, event) ==
    pmevcntr_reset(pmevtyper_set(pmcnten_enable(b, n), n, event), n)

\* PMCR as a value: the N field and the flag bits.  The reset bits are not
\* readable (PMCR_READABLE): they read as 0.
pmcr_read(m) == [N |-> pmu_nevents, flags |-> m.cr]

\* PMCR_WRITABLE: the N field ignores writes.  A written 1 in
\* PMCR_EVENT_COUNTER_RESET zeroes every event counter, one in
\* PMCR_CYCLE_COUNTER_RESET zeroes the cycle counter; the other writable
\* bits are stored.
pmcr_write(m, x) ==
    [m EXCEPT !.cr = (x.flags \ (PMCR_EVENT_COUNTER_RESET \cup PMCR_CYCLE_COUNTER_RESET))
                         \cap (0 .. 6),
              !.cn = IF PMCR_EVENT_COUNTER_RESET \subseteq x.flags
                     THEN [i \in DOMAIN m.cn |-> Zero] ELSE @,
              !.cc = IF PMCR_CYCLE_COUNTER_RESET \subseteq x.flags THEN Zero ELSE @]

\* pmcr_write(pmcr_read() | x)
pmcr_set(m, x) ==
    pmcr_write(m, [pmcr_read(m) EXCEPT !.flags = @ \cup x])

\* pmcr_write(pmcr_read() & ~x)
pmcr_unset(m, x) ==
    pmcr_write(m, [pmcr_read(m) EXCEPT !.flags = @ \ x])

pmu_enable(m) == pmcr_set(m, PMCR_ENABLE_COUNTERS)

pmu_disable(m) == pmcr_unset(m, PMCR_ENABLE_COUNTERS)

pmevcntr_reset_all(m) == pmcr_set(m, PMCR_EVENT_COUNTER_RESET)

pmccntr_reset(m) == pmcr_set(m, PMCR_CYCLE_COUNTER_RESET)

pmuserenr_read(m) == m.ue

pmuserenr_write(m, x) == [m EXCEPT !.ue = x]

pmceid0_isset(x) == (pmceid0 \cap x) = x

pmceid1_isset(x) == (pmceid1 \cap x) = x

----------------------------------------------------------------------------
(* Helper functions: perfmon.c *)

\* mask = (1 << nevents) - 1
pmcnten_get(b) == pmcntenset_read(b) \cap (0 .. (pmu_nevents - 1))

\* if (set & (0b11 << i) == 0): == binds tighter than &, so the test is
\* set & ((0b11 << i) == 0)
OpenTest64(set, i) == NonZero(set \cap EqZero(Shl({0, 1}, i)))

\* if (set & (1 << i) == 0), likewise set & ((1 << i) == 0)
OpenTest32(set, i) == NonZero(set \cap EqZero(Shl({0}, i)))

pmcnten_get_open(b, flags) ==
    LET set == pmcnten_get(b)
        nevents == pmu_nevents
        cand == IF flags = PMU_EVENTFLAG_64BIT
                THEN {i \in 0 .. (nevents - 1) : i % 2 = 0 /\ OpenTest64(set, i)}
                ELSE {i \in 0 .. (nevents - 1) : OpenTest32(set, i)}
    IN  IF cand # {} THEN Min(cand) ELSE PMU_RETURN_NO_OPEN_SLOT

pmcnten_get_event_bit(b, event) ==
    LET set == pmcnten_get(b)
        nevents == pmu_nevents
        hit == {i \in 0 .. (nevents - 1) :
                   i \in set /\ event \in pmevtyper_get(b, i)}
    IN  IF hit # {} THEN Min(hit) ELSE PMU_RETURN_EVENT_NO_WATCH

----------------------------------------------------------------------------
(* Public functions: perfmon.c.  F_results(b, ...) is the set of the       *)
(* possible outcomes of the call F(...) on bank b: the value returned, the *)
(* value stored through the value pointer, and the bank after the call.    *)

Result(ret, val, b) == [ret |-> ret, val |-> val, b |-> b]

\* the possible results of pmu_event_available(event).  1 << 32 (event 63)
\* is a shift by the width of int: undefined, either answer may come back.
pmu_event_available(event) ==
    IF event > 63 THEN {FALSE}
    ELSE IF event > 31
         THEN IF event - 31 >= WordBits THEN BOOLEAN
              ELSE {pmceid1_isset(Shl({0}, event - 31))}
         ELSE {pmceid0_isset(Shl({0}, event))}

\* pmu_event_add with the slip of zeroing the count of the slot that watches
\* the event before it returns PMU_RETURN_EVENT_ALREADY
pmu_event_add_resets_watched(b, event, flags) ==
    LET bit == pmcnten_get_event_bit(b, event)
        one(avail) ==
            IF ~avail THEN Result(PMU_RETURN_EVENT_NO_AVAIL, NoValue, b)
            ELSE IF bit >= 0
                 THEN Result(PMU_RETURN_EVENT_ALREADY, NoValue, pmevcntr_reset(b, bit))
            ELSE Result(pmcnten_get_open(b, flags), NoValue, b)
    IN  {one(avail) : avail \in pmu_event_available(event)}

\* pmu_event_add with the slip of looking for the event in the bank before
\* it asks whether the platform has it
pmu_event_add_watch_first(b, event, flags) ==
    LET i == pmcnten_get_open(b, flags)
        one(avail) ==
            IF pmcnten_get_event_bit(b, event) >= 0
            THEN Result(PMU_RETURN_EVENT_ALREADY, NoValue, b)
            ELSE IF ~avail THEN Result(PMU_RETURN_EVENT_NO_AVAIL, NoValue, b)
            ELSE IF i < 0 THEN Result(i, NoValue, b)
            ELSE IF flags = PMU_EVENTFLAG_64BIT
                 THEN Result(PMU_RETURN_SUCCESS, NoValue,
                             pmu_event_set(pmu_event_set(b, i, event), i + 1, EVT_CHAIN))
            ELSE Result(PMU_RETURN_SUCCESS, NoValue, pmu_event_set(b, i, event))
    IN  {one(avail) : avail \in pmu_event_available(event)}

pmu_event_add_results(b, event, flags) ==
    LET i == pmcnten_get_open(b, flags)
        one(avail) ==
            IF ~avail THEN Result(PMU_RETURN_EVENT_NO_AVAIL, NoValue, b)
            ELSE IF pmcnten_get_event_bit(b, event) >= 0
                 THEN Result(PMU_RETURN_EVENT_ALREADY, NoValue, b)
            ELSE IF i < 0 THEN Result(i, NoValue, b)
            ELSE IF flags = PMU_EVENTFLAG_64BIT
                 THEN Result(PMU_RETURN_SUCCESS, NoValue,
                             pmu_event_set(pmu_event_set(b, i, event), i + 1, EVT_CHAIN))
            ELSE Result(PMU_RETURN_SUCCESS, NoValue, pmu_event_set(b, i, event))
    IN  {one(avail) : avail \in pmu_event_available(event)}

\* pmu_event_remove with the slip of leaving the continuation slot of a
\* chained pair enabled
pmu_event_remove_keeps_chain(b, event) ==
    LET bit == pmcnten_get_event_bit(b, event)
    IN  IF bit < 0 THEN {Result(bit, NoValue, b)}
        ELSE {Result(PMU_RETURN_SUCCESS, NoValue, pmcnten_disable(b, bit))}

\* pmu_event_remove with the slip of resetting the count of the slot it
\* disables
pmu_event_remove_resets_count(b, event) ==
    LET bit == pmcnten_get_event_bit(b, event)
        b1 == pmevcntr_reset(pmcnten_disable(b, bit), bit)
    IN  IF bit < 0 THEN {Result(bit, NoValue, b)}
        ELSE IF bit + 1 < pmu_nevents
             THEN {Result(PMU_RETURN_SUCCESS, NoValue,
                          IF t = EVT_CHAIN THEN pmcnten_disable(b1, bit + 1) ELSE b1)
                   : t \in pmevtyper_get(b, bit + 1)}
        ELSE {Result(PMU_RETURN_SUCCESS, NoValue, b1)}

\* We do not reset the count here in case we want to read the count after
\* removal
pmu_event_remove_results(b, event) ==
    LET bit == pmcnten_get_event_bit(b, event)
        b1 == pmcnten_disable(b, bit)
    IN  IF bit < 0 THEN {Result(bit, NoValue, b)}
        ELSE IF bit + 1 < pmu_nevents
             THEN {Result(PMU_RETURN_SUCCESS, NoValue,
                          IF t = EVT_CHAIN THEN pmcnten_disable(b1, bit + 1) ELSE b1)
                   : t \in pmevtyper_get(b, bit + 1)}
        ELSE {Result(PMU_RETURN_SUCCESS, NoValue, b1)}

pmu_event_reset_results(b, event) ==
    LET bit == pmcnten_get_event_bit(b, event)
    IN  IF bit < 0 THEN {Result(bit, NoValue, b)}
        ELSE IF bit + 1 < pmu_nevents
             THEN {Result(PMU_RETURN_SUCCESS, NoValue,
                          pmevcntr_reset(IF t = EVT_CHAIN
                                         THEN pmevcntr_reset(b, bit + 1) ELSE b,
                                         bit))
                   : t \in pmevtyper_get(b, bit + 1)}
        ELSE {Result(PMU_RETURN_SUCCESS, NoValue, pmevcntr_reset(b, bit))}

\* pmu_event_read_32 with the slip of testing the value pointer before it
\* looks for the event
pmu_event_read_32_ptr_first(b, event, value) ==
    LET bit == pmcnten_get_event_bit(b, event)
    IN  IF value = NullPtr THEN {Result(PMU_RETURN_BAD_PTR, NoValue, b)}
        ELSE IF bit < 0 THEN {Result(bit, NoValue, b)}
        ELSE {Result(bit, c, b) : c \in pmevcntr_read(b, bit)}

pmu_event_read_32_results(b, event, value) ==
    LET bit == pmcnten_get_event_bit(b, event)
    IN  IF bit < 0 THEN {Result(bit, NoValue, b)}
        ELSE IF value = NullPtr THEN {Result(PMU_RETURN_BAD_PTR, NoValue, b)}
        ELSE {Result(bit, c, b) : c \in pmevcntr_read(b, bit)}

\* ULL(low, high): the 64-bit value low | (high << 32)
ULL(low, high) == low \cup {k + WordBits : k \in high}

\* pmevcntr_read_64 and ULL are used by pmu_event_get and defined nowhere in
\* perfmon.h or perfmon.c; they are taken from the design: the next counter
\* is the high 32 bits, value = low | (high << 32).
\* the possible results of pmevcntr_read_64(n): counter n as the low half
\* and counter n + 1 as the high half
pmevcntr_read_64(b, n) ==
    {ULL(low, high) : low \in pmevcntr_read(b, n), high \in pmevcntr_read(b, n + 1)}

\* pmu_event_get with the slip of never looking for the chain marker: the
\* 32-bit value whatever the next slot holds
pmu_event_get_ignores_chain(b, event, value) ==
    LET bit == pmcnten_get_event_bit(b, event)
    IN  IF bit < 0 THEN {Result(bit, NoValue, b)}
        ELSE IF value = NullPtr THEN {Result(PMU_RETURN_BAD_PTR, NoValue, b)}
        ELSE {Result(bit, ULL(low, Zero), b) : low \in pmevcntr_read(b, bit)}

pmu_event_get_results(b, event, value) ==
    LET bit == pmcnten_get_event_bit(b, event)
    IN  IF bit < 0 THEN {Result(bit, NoValue, b)}
        ELSE IF value = NullPtr THEN {Result(PMU_RETURN_BAD_PTR, NoValue, b)}
        ELSE UNION {
               IF bit % 2 = 0 /\ t = EVT_CHAIN
               THEN {Result(bit, v, b) : v \in pmevcntr_read_64(b, bit)}
               ELSE {Result(bit, ULL(low, Zero), b) : low \in pmevcntr_read(b, bit)}
               : t \in pmevtyper_get(b, bit + 1)}

\* pmu_disable_all with the slip of not resetting the cycle counter
pmu_disable_all_keeps_cycles(m) ==
    LET m1 == pmcntenclr_write(m, Word)
        m2 == pmevcntr_reset_all(m1)
        m4 == pmu_disable(m2)
    IN  <<m1, m2, m2, m4>>

\* Disable and reset everything: the machine after each of the four
\* statements of pmu_disable_all, in the order of the code
pmu_disable_all_trace(m) ==
    LET m1 == pmcntenclr_write(m, Word)
        m2 == pmevcntr_reset_all(m1)
        m3 == pmccntr_reset(m2)
        m4 == pmu_disable(m3)
    IN  <<m1, m2, m3, m4>>

pmu_disable_all_result(m) == pmu_disable_all_trace(m)[4]

----------------------------------------------------------------------------
(* Save and restore: perfmon_state.c *)

\* the indices at which pmu_load and pmu_unload index state_pmevtype
state_pmevtype_indices == 0 .. (pmu_nevents - 1)

\* what a word of memory next to state_pmevtype can hold after a store past
\* the end of the array: the word as it was, or another value
Overrun(word, others) ==
    IF pmu_nevents > NEVENTS_ARCH_MAX THEN {word} \cup others ELSE {word}

\* state_pmevtype[i] = pmevtyper_read(i) for i < nevents.  The entries
\* inside the array take the values read; the stores at i >=
\* NEVENTS_ARCH_MAX land outside it.
pmu_load_types(m) ==
    [i \in 0 .. (NEVENTS_ARCH_MAX - 1) |->
        IF i < pmu_nevents THEN m.ty[i] ELSE m.state_pmevtype[i]]

\* pmu_load with the slip of enabling the PMU before it reads PMCR
pmu_load_enables_first(m) ==
    LET m2 == pmu_enable(m)
        m1 == [m2 EXCEPT !.state_pmcr = pmcr_read(m2)]
        m3 == [m1 EXCEPT !.state_pmuserenr = pmuserenr_read(m1)]
        m4 == [m3 EXCEPT !.state_pmcnten = pmcntenset_read(m3)]
    IN  {[m4 EXCEPT !.state_pmevtype = pmu_load_types(m4)]}

\* the possible machines after pmu_load()
pmu_load_results(m) ==
    LET m1 == [m EXCEPT !.state_pmcr = pmcr_read(m)]
        m2 == pmu_enable(m1)
        m3 == [m2 EXCEPT !.state_pmuserenr = pmuserenr_read(m2)]
        m4 == [m3 EXCEPT !.state_pmcnten = pmcntenset_read(m3)]
        m5 == [m4 EXCEPT !.state_pmevtype = pmu_load_types(m4)]
    IN  {[m5 EXCEPT !.state_pmcr = c, !.state_pmcnten = e, !.state_pmuserenr = u] :
            c \in Overrun(m5.state_pmcr, {[N |-> 0, flags |-> {}]}),
            e \in Overrun(m5.state_pmcnten, {Zero, MaxU32}),
            u \in Overrun(m5.state_pmuserenr, {Zero, One})}

\* pmevtyper_write(i, state_pmevtype[i]) for i from the given one up to
\* nevents: the machine after each write.  At i >= NEVENTS_ARCH_MAX the
\* value is read past the end of the array and pmevtyper_write has no arm.
RECURSIVE pmu_unload_types(_, _)
pmu_unload_types(m, i) ==
    IF i >= pmu_nevents THEN <<>>
    ELSE LET m1 == IF i < NEVENTS_ARCH_MAX
                   THEN pmevtyper_write(m, i, m.state_pmevtype[i])
                   ELSE m
         IN  <<m1>> \o pmu_unload_types(m1, i + 1)

\* pmu_unload with the slip of writing the enable mask to PMCNTENSET only
pmu_unload_set_only(m) ==
    LET types == pmu_unload_types(m, 0)
        m1 == IF types = <<>> THEN m ELSE types[Len(types)]
        m2 == pmcntenset_write(m1, m1.state_pmcnten)
        m4 == pmuserenr_write(m2, m2.state_pmuserenr)
        m5 == pmcr_write(m4, m4.state_pmcr)
    IN  types \o <<m2, m2, m4, m5>>

\* pmu_unload with the slip of writing PMCR before the enable mask
pmu_unload_pmcr_first(m) ==
    LET types == pmu_unload_types(m, 0)
        m1 == IF types = <<>> THEN m ELSE types[Len(types)]
        m2 == pmcr_write(m1, m1.state_pmcr)
        m3 == pmcntenset_write(m2, m2.state_pmcnten)
        m4 == pmcntenclr_write(m3, Word \ m3.state_pmcnten)
        m5 == pmuserenr_write(m4, m4.state_pmuserenr)
    IN  types \o <<m2, m3, m4, m5>>

\* pmu_unload with the slip of not writing PMCR back
pmu_unload_keeps_pmcr(m) ==
    LET types == pmu_unload_types(m, 0)
        m1 == IF types = <<>> THEN m ELSE types[Len(types)]
        m2 == pmcntenset_write(m1, m1.state_pmcnten)
        m3 == pmcntenclr_write(m2, Word \ m2.state_pmcnten)
        m4 == pmuserenr_write(m3, m3.state_pmuserenr)
    IN  types \o <<m2, m3, m4, m4>>

\* the machine after each register write of pmu_unload, in the order of
\* the code
pmu_unload_trace(m) ==
    LET types == pmu_unload_types(m, 0)
        m1 == IF types = <<>> THEN m ELSE types[Len(types)]
        m2 == pmcntenset_write(m1, m1.state_pmcnten)
        m3 == pmcntenclr_write(m2, Word \ m2.state_pmcnten)
        m4 == pmuserenr_write(m3, m3.state_pmuserenr)
        m5 == pmcr_write(m4, m4.state_pmcr)
    IN  types \o <<m2, m3, m4, m5>>

pmu_unload_result(m) == pmu_unload_trace(m)[Len(pmu_unload_trace(m))]

\* the possible machines after pmu_load_reset(): pmu_load(), then
\* pmevcntr_reset_all(), then pmccntr_reset()
pmu_load_reset_results(m) ==
    {pmccntr_reset(pmevcntr_reset_all(m1)) : m1 \in pmu_load_results(m)}

\* pmu_unload_reset with the slip of writing the reset bits alone to PMCR,
\* not PMCR's flags with the reset bit added
pmu_unload_reset_clears_flags(m) ==
    LET t == pmu_unload_trace(m)
        m5 == t[Len(t)]
        m6 == pmcr_write(m5, [pmcr_read(m5) EXCEPT !.flags = PMCR_EVENT_COUNTER_RESET])
        m7 == pmcr_write(m6, [pmcr_read(m6) EXCEPT !.flags = PMCR_CYCLE_COUNTER_RESET])
    IN  t \o <<m6, m7>>

\* the machine after each register write of pmu_unload_reset: those of
\* pmu_unload(), then pmevcntr_reset_all(), then pmccntr_reset()
pmu_unload_reset_trace(m) ==
    LET t == pmu_unload_trace(m)
        m5 == t[Len(t)]
        m6 == pmevcntr_reset_all(m5)
        m7 == pmccntr_reset(m6)
    IN  t \o <<m6, m7>>

pmu_unload_reset_result(m) ==
    pmu_unload_reset_trace(m)[Len(pmu_unload_reset_trace(m))]

\* The slots whose event-type or count register a call reads or writes.
\* The lookup reads the event type of the enabled slots below nevents.
pmcnten_get_event_bit_slots(b) == pmcnten_get(b)

\* bit++; if (bit < pmu_nevents()) pmevtyper_get(bit)
pmu_event_remove_slots(b, event) ==
    LET bit == pmcnten_get_event_bit(b, event)
    IN  pmcnten_get_event_bit_slots(b)
            \cup (IF bit >= 0 /\ bit + 1 < pmu_nevents THEN {bit + 1} ELSE {})

\* as remove, then pmevcntr_reset(bit - 1)
pmu_event_reset_slots(b, event) ==
    LET bit == pmcnten_get_event_bit(b, event)
    IN  pmcnten_get_event_bit_slots(b)
            \cup (IF bit >= 0 /\ bit + 1 < pmu_nevents THEN {bit + 1} ELSE {})
            \cup (IF bit >= 0 THEN {bit} ELSE {})

\* pmevcntr_read(bit)
pmu_event_read_32_slots(b, event, value) ==
    LET bit == pmcnten_get_event_bit(b, event)
    IN  pmcnten_get_event_bit_slots(b)
            \cup (IF bit >= 0 /\ value # NullPtr THEN {bit} ELSE {})

\* bit % 2 == 0 && pmevtyper_get(bit + 1) == EVT_CHAIN: slot bit + 1 is read
\* whenever bit is even, with the test of bit + 1 < pmu_nevents() commented
\* out
pmu_event_get_slots(b, event, value) ==
    LET bit == pmcnten_get_event_bit(b, event)
    IN  pmcnten_get_event_bit_slots(b)
            \cup (IF bit >= 0 /\ value # NullPtr
                  THEN {bit} \cup (IF bit % 2 = 0 THEN {bit + 1} ELSE {})
                  ELSE {})

\* The slots whose count register a read reads: none when the call returns
\* before *value = pmevcntr_read(bit)
pmu_event_read_32_counts(b, event, value) ==
    LET bit == pmcnten_get_event_bit(b, event)
    IN  IF bit >= 0 /\ value # NullPtr THEN {bit} ELSE {}

\* pmevcntr_read_64(bit) reads counters bit and bit + 1, pmevcntr_read(bit)
\* counter bit
pmu_event_get_counts(b, event, value) ==
    LET bit == pmcnten_get_event_bit(b, event)
    IN  IF bit >= 0 /\ value # NullPtr
        THEN UNION {IF bit % 2 = 0 /\ t = EVT_CHAIN THEN {bit, bit + 1} ELSE {bit}
                    : t \in pmevtyper_get(b, bit + 1)}
        ELSE {}

----------------------------------------------------------------------------
(* The calls as steps.  last records the call just made: its name and      *)
(* arguments, what it returned, and the bank it was made on.               *)

Op(op, event, flags, value, r, pre) ==
    [op |-> op, event |-> event, flags |-> flags, value |-> value,
     ret |-> r.ret, val |-> r.val, pre |-> pre, pmcr |-> pmcr, trace |-> <<>>,
     slot |-> 0]

\* a call of a function of perfmon.c: it works on the counter bank only
Step(op, event, flags, value, results, pre) ==
    \E r \in results :
        /\ pmcnten' = r.b.en
        /\ pmevtyper' = r.b.ty
        /\ pmevcntr' = r.b.cn
        /\ last' = Op(op, event, flags, value, r, pre)
        /\ UNCHANGED <<pmcr, pmceid0, pmceid1, pmuserenr, pmccntr, snapshot, captured>>

Call(op, event, flags, results) ==
    Step(op, event, flags, TRUE, results, bank)

pmu_event_add(event, flags) ==
    Call("add", event, flags, pmu_event_add_results(bank, event, flags))

pmu_event_remove(event) ==
    Call("remove", event, 0, pmu_event_remove_results(bank, event))

pmu_event_reset(event) ==
    Call("reset", event, 0, pmu_event_reset_results(bank, event))

pmu_event_read_32(event, value) ==
    Step("read_32", event, 0, value,
         pmu_event_read_32_results(bank, event, value), bank)

pmu_event_get(event, value) ==
    Step("get", event, 0, value, pmu_event_get_results(bank, event, value), bank)

\* the hardware counting: a count arrives in event counter n
pmevcntr_count(n, count) ==
    /\ n < pmu_nevents
    /\ Call("count", 0, 0, {Result(0, NoValue, pmevcntr_write(bank, n, count))})

\* "the bank before the call is not recorded"
NoBank == [en |-> {}, ty |-> <<>>, cn |-> <<>>]

\* a call made between pmu_load and pmu_unload; of the call only its name
\* and what it returned are recorded
InUse(op, results) ==
    /\ captured.loaded
    /\ Step(op, 0, 0, TRUE, results, NoBank)

used_event_add(event, flags) ==
    InUse("add", pmu_event_add_results(bank, event, flags))

used_event_remove(event) ==
    InUse("remove", pmu_event_remove_results(bank, event))

used_event_reset(event) ==
    InUse("reset", pmu_event_reset_results(bank, event))

\* a function of perfmon.h called by the client: pmu_event_set(n, event)
used_event_set(n, event) ==
    /\ n < pmu_nevents
    /\ InUse("set", {Result(0, NoValue, pmu_event_set(bank, n, event))})

\* the registers and globals take the values of machine m
Commit(m) ==
    /\ pmcnten' = m.en
    /\ pmevtyper' = m.ty
    /\ pmevcntr' = m.cn
    /\ pmcr' = [pmcr EXCEPT !.flags = m.cr]
    /\ pmuserenr' = m.ue
    /\ pmccntr' = m.cc
    /\ state_pmcr' = m.state_pmcr
    /\ state_pmcnten' = m.state_pmcnten
    /\ state_pmuserenr' = m.state_pmuserenr
    /\ state_pmevtype' = m.state_pmevtype
    /\ UNCHANGED <<pmceid0, pmceid1>>

\* the registers of machine m, without the snapshot globals
Registers(m) ==
    [en |-> m.en, ty |-> m.ty, cn |-> m.cn, cr |-> m.cr, ue |-> m.ue, cc |-> m.cc]

\* the record of a call of a function that takes and returns nothing, with
\* the registers before the call and after each of its statements
VoidOp(op, trace) ==
    [op |-> op, event |-> 0, flags |-> 0, value |-> TRUE,
     ret |-> 0, val |-> NoValue, pre |-> NoBank, pmcr |-> pmcr,
     trace |-> [k \in 1 .. (Len(trace) + 1) |->
                   IF k = 1 THEN Registers(machine) ELSE Registers(trace[k - 1])],
     slot |-> 0]

\* The client captures with pmu_load, uses the PMU, and restores with
\* pmu_unload.  captured keeps what the registers held at pmu_load.
pmu_load ==
    /\ ~captured.loaded
    /\ \E m \in pmu_load_results(machine) : Commit(m)
    /\ captured' = [loaded |-> TRUE, en |-> pmcnten, ty |-> pmevtyper,
                    cn |-> pmevcntr, cr |-> pmcr.flags, ue |-> pmuserenr,
                    cc |-> pmccntr]
    /\ last' = VoidOp("load", <<>>)

pmu_unload ==
    /\ captured.loaded
    /\ Commit(pmu_unload_result(machine))
    /\ captured' = [captured EXCEPT !.loaded = FALSE]
    /\ last' = VoidOp("unload", pmu_unload_trace(machine))

pmu_load_reset ==
    /\ ~captured.loaded
    /\ \E m \in pmu_load_reset_results(machine) : Commit(m)
    /\ captured' = [loaded |-> TRUE, en |-> pmcnten, ty |-> pmevtyper,
                    cn |-> pmevcntr, cr |-> pmcr.flags, ue |-> pmuserenr,
                    cc |-> pmccntr]
    /\ last' = VoidOp("load_reset", <<>>)

pmu_unload_reset ==
    /\ captured.loaded
    /\ Commit(pmu_unload_reset_result(machine))
    /\ captured' = [captured EXCEPT !.loaded = FALSE]
    /\ last' = VoidOp("unload_reset", pmu_unload_reset_trace(machine))

pmu_disable_all ==
    /\ captured.loaded
    /\ Commit(pmu_disable_all_result(machine))
    /\ UNCHANGED captured
    /\ last' = VoidOp("disable_all", pmu_disable_all_trace(machine))

\* pmevtyper_set(n, event) followed by pmevtyper_get(n), as the lookup
\* makes it; the call recorded returns what pmevtyper_get returned
pmevtyper_set_get(n, event) ==
    /\ n < pmu_nevents
    /\ LET b1 == pmevtyper_set(bank, n, event)
       IN  \E g \in pmevtyper_get(b1, n) :
               /\ pmcnten' = b1.en
               /\ pmevtyper' = b1.ty
               /\ pmevcntr' = b1.cn
               /\ last' = [Op("typer_set_get", event, 0, TRUE,
                              Result(g, NoValue, b1), bank) EXCEPT !.slot = n]
    /\ UNCHANGED <<pmcr, pmceid0, pmceid1, pmuserenr, pmccntr, snapshot, captured>>

\* pmu_event_available(event) as a call: 1 for available, 0 for not
pmu_event_available_call(event) ==
    Call("available", event, 0,
         {Result(IF a THEN 1 ELSE 0, NoValue, bank) : a \in pmu_event_available(event)})

----------------------------------------------------------------------------
(* Specifications *)

NoCall == [op |-> "none", event |-> 0, flags |-> 0, value |-> TRUE,
           ret |-> 0, val |-> NoValue, pre |-> bank, pmcr |-> pmcr,
           trace |-> <<>>, slot |-> 0]

\* the globals of perfmon_state.c are zero before the first pmu_load
NoSnapshot ==
    /\ state_pmcr = [N |-> 0, flags |-> {}]
    /\ state_pmcnten = {}
    /\ state_pmuserenr = {}
    /\ state_pmevtype = [i \in 0 .. (NEVENTS_ARCH_MAX - 1) |-> 0]

\* pmu_load has not been called
NotCaptured == [loaded |-> FALSE]

\* The registers hold what reset or the previous owner of the PMU left in
\* them: any enable mask, event types and counts.  The hardware of the model
\* implements events 3 and 0x1E and not event 4.
InitBank(n) ==
    /\ pmcr = [N |-> n, flags |-> {}]
    /\ pmcnten \in SUBSET (0 .. (n - 1))
    /\ pmevtyper \in [0 .. (n - 1) -> TyperVals]
    /\ pmevcntr \in {f \in [0 .. (n - 1) -> {Zero, One, MaxU32}] :
                        \A i \in 0 .. (n - 1) : f[i] \in CountVals(i)}

Init ==
    /\ \E n \in 1 .. MaxN : InitBank(n)
    /\ pmceid0 = {EVT_L1D_CACHE_REFILL, EVT_CHAIN}
    /\ pmceid1 = {}
    /\ pmuserenr = {}
    /\ pmccntr = Zero
    /\ NoSnapshot
    /\ captured = NotCaptured
    /\ last = NoCall

Next ==
    \/ \E e \in Events, f \in Flags : pmu_event_add(e, f)
    \/ \E e \in Events : pmu_event_remove(e)
    \/ \E e \in Events : pmu_event_reset(e)
    \/ \E e \in Events, v \in Ptrs : pmu_event_read_32(e, v)
    \/ \E e \in Events, v \in Ptrs : pmu_event_get(e, v)
    \/ \E n \in Slots : \E c \in CountVals(n) : pmevcntr_count(n, c)

Spec == Init /\ [][Next]_vars

\* The availability query alone, over capability bitmaps and event ids that
\* reach both planes and their edges.
AvailEvents == {0, 3, 31, 32, 33, 62, 63, 64}

InitAvail ==
    /\ InitBank(1)
    /\ pmceid0 \in SUBSET {0, 3, 31}
    /\ pmceid1 \in SUBSET {0, 1, 31}
    /\ pmuserenr = {}
    /\ pmccntr = Zero
    /\ NoSnapshot
    /\ captured = NotCaptured
    /\ last = NoCall

NextAvail == \E e \in AvailEvents : pmu_event_available_call(e)

SpecAvail == InitAvail /\ [][NextAvail]_vars

\* Save and restore around a use of the PMU: any enable mask (the cycle
\* counter's bit included), event types, PMCR flags and PMUSERENR at start,
\* every counter counting something.
StateEvents == {EVT_L1D_CACHE_REFILL, EVT_CHAIN}

InitState ==
    /\ \E n \in 1 .. MaxNState :
           /\ pmcr \in {[N |-> n, flags |-> f] :
                           f \in {{}, PMCR_CYCLE_COUNTER_64_BITS,
                                  PMCR_ENABLE_COUNTERS \cup PMCR_CYCLE_COUNTER_64_BITS}}
           /\ pmcnten \in SUBSET ((0 .. (n - 1)) \cup PMCNTEN_CYCLE_CTR)
           /\ pmevtyper \in [0 .. (n - 1) -> StateEvents]
           /\ pmevcntr = [i \in 0 .. (n - 1) |-> IF i % 2 = 0 THEN MaxU32 ELSE One]
    /\ pmceid0 = {EVT_L1D_CACHE_REFILL, EVT_CHAIN}
    /\ pmceid1 = {}
    /\ pmuserenr \in {Zero, One}
    /\ pmccntr = One
    /\ NoSnapshot
    /\ captured = NotCaptured
    /\ last = NoCall

NextState ==
    \/ pmu_load
    \/ pmu_unload
    \/ pmu_load_reset
    \/ pmu_unload_reset
    \/ pmu_disable_all
    \/ \E e \in StateEvents, f \in Flags : used_event_add(e, f)
    \/ \E e \in StateEvents : used_event_remove(e)
    \/ \E e \in StateEvents : used_event_reset(e)
    \/ used_event_set(0, EVT_L1D_CACHE)

SpecState == InitState /\ [][NextState]_vars

\* Save and restore for every number of event counters PMCR.N can report.
InitSnap ==
    /\ \E n \in 0 .. PMCR_NEVENTS_MAX :
           /\ pmcr \in {[N |-> n, flags |-> f] : f \in SUBSET PMCR_ENABLE_COUNTERS}
           /\ pmcnten \in {{}, 0 .. (n - 1)}
           /\ pmevtyper \in {[i \in 0 .. (n - 1) |-> e] : e \in StateEvents}
           /\ pmevcntr = [i \in 0 .. (n - 1) |-> Zero]
    /\ pmceid0 = {EVT_L1D_CACHE_REFILL, EVT_CHAIN}
    /\ pmceid1 = {}
    /\ pmuserenr \in {Zero, One}
    /\ pmccntr = Zero
    /\ NoSnapshot
    /\ captured = NotCaptured
    /\ last = NoCall

NextSnap == pmu_load \/ pmu_unload

SpecSnap == InitSnap /\ [][NextSnap]_vars

\* The event-type registers alone, holding anything in the bits above the
\* event field, with all counters enabled or none.
InitTyper ==
    /\ \E n \in 1 .. MaxNTyper :
           /\ pmcr = [N |-> n, flags |-> {}]
           /\ pmcnten \in {{}, 0 .. (n - 1)}
           /\ pmevtyper \in [0 .. (n - 1) -> TyperContents]
           /\ pmevcntr = [i \in 0 .. (n - 1) |-> Zero]
    /\ pmceid0 = {EVT_L1D_CACHE_REFILL, EVT_CHAIN}
    /\ pmceid1 = {}
    /\ pmuserenr = {}
    /\ pmccntr = Zero
    /\ NoSnapshot
    /\ captured = NotCaptured
    /\ last = NoCall

NextTyper ==
    \E n \in 0 .. (MaxNTyper - 1), e \in TypedEvents : pmevtyper_set_get(n, e)

SpecTyper == InitTyper /\ [][NextTyper]_vars
----------------------------------------------------------------------------
(* Vocabulary of the claims *)

Pre == last.pre

\* the event type slot i of bank b reads back as (i is an implemented slot)
EventTypeOf(b, i) == b.ty[i] % 2048

Watched(b, event) == pmcnten_get_event_bit(b, event) >= 0

\* the enabled slots that carry the event
SlotsOf(b, event) ==
    {i \in pmcnten_get(b) : EventTypeOf(b, i) = event}

\* slots i and i + 1 are a chained pair: both enabled, slot i + 1 within
\* the bank and carrying the chain marker
ChainedAt(b, i) ==
    /\ i \in pmcnten_get(b)
    /\ i + 1 < pmu_nevents
    /\ i + 1 \in pmcnten_get(b)
    /\ EventTypeOf(b, i + 1) = EVT_CHAIN

FreeSlots(b) == (0 .. (pmu_nevents - 1)) \ pmcnten_get(b)

FreePairs(b) == {i \in FreeSlots(b) : i + 1 < pmu_nevents /\ i + 1 \in FreeSlots(b)}

\* the allocator has room for a request with these flags
Room(b, flags) ==
    IF flags = PMU_EVENTFLAG_64BIT THEN FreePairs(b) # {} ELSE FreeSlots(b) # {}

\* the capability bitmaps' answer: bit e of PMCEID0 for e in 0..31, bit
\* e - 32 of PMCEID1 for e in 32..63, false from 64 on
AvailableRef(event) ==
    IF event < 32 THEN event \in pmceid0
    ELSE IF event < 64 THEN (event - 32) \in pmceid1
    ELSE FALSE

\* the last call was add of an available, unwatched event
AddOfNewEvent ==
    /\ last.op = "add"
    /\ AvailableRef(last.event)
    /\ ~Watched(Pre, last.event)

----------------------------------------------------------------------------
(* C1 *)

----------------------------------------------------------------------------
(* C2 *)

\* C2: narrow allocation is first-fit.  add(E, no 64-bit flag) of an
\* available, unwatched event succeeds whenever some slot in 0..N-1 is free
\* and binds the lowest free slot; it returns PMU_RETURN_NO_OPEN_SLOT exactly
\* when all N slots are enabled.
C2_NarrowFirstFit ==
    (AddOfNewEvent /\ last.flags = 0) =>
        IF FreeSlots(Pre) = {}
        THEN last.ret = PMU_RETURN_NO_OPEN_SLOT
        ELSE /\ last.ret = PMU_RETURN_SUCCESS
             /\ bank.en = Pre.en \cup {Min(FreeSlots(Pre))}
             /\ EventTypeOf(bank, Min(FreeSlots(Pre))) = last.event

----------------------------------------------------------------------------
(* C3 *)

\* C3: wide allocation is first-fit over any contiguous free pair.
\* add(E, PMU_EVENTFLAG_64BIT) of an available, unwatched event succeeds
\* whenever some pair (i, i+1), i+1 < N, is free, and takes the lowest such
\* i, odd or even; it returns PMU_RETURN_NO_OPEN_SLOT only when there is no
\* such pair.
C3_WideFirstFit ==
    (AddOfNewEvent /\ last.flags = PMU_EVENTFLAG_64BIT) =>
        IF FreePairs(Pre) = {}
        THEN last.ret = PMU_RETURN_NO_OPEN_SLOT
        ELSE /\ last.ret = PMU_RETURN_SUCCESS
             /\ bank.en = Pre.en \cup {Min(FreePairs(Pre)), Min(FreePairs(Pre)) + 1}
             /\ EventTypeOf(bank, Min(FreePairs(Pre))) = last.event

----------------------------------------------------------------------------
(* C4 *)

\* the bank after slot i of bank b is bound to the event, and slot i + 1 to
\* the chain marker when wide: enabled, event type written, count zero, every
\* other slot as it was
BoundFrom(b, i, event, wide) ==
    /\ bank.en = b.en \cup (IF wide THEN {i, i + 1} ELSE {i})
    /\ EventTypeOf(bank, i) = event
    /\ bank.cn[i] = Zero
    /\ wide => EventTypeOf(bank, i + 1) = EVT_CHAIN /\ bank.cn[i + 1] = Zero
    /\ \A j \in 0 .. (pmu_nevents - 1) :
           (j # i /\ ~(wide /\ j = i + 1)) =>
               bank.ty[j] = b.ty[j] /\ bank.cn[j] = b.cn[j]

----------------------------------------------------------------------------
(* C5 *)

\* C5: pmu_event_available(e) is the capability bitmaps' answer (bit e of
\* PMCEID0 for e in 0..31, bit e-32 of PMCEID1 for e in 32..63, false for
\* e >= 64), whatever the bank holds, and the call changes no register.
C5_AvailableMatchesReference ==
    last.op = "available" =>
        /\ (last.ret = 1) = AvailableRef(last.event)
        /\ bank = Pre

----------------------------------------------------------------------------
(* C6 *)

\* the value a get of the last call's event returns for a chained pair at
\* slot i: low | (high << 32)
ChainedValue(b, i) == ULL(b.cn[i], b.cn[i + 1])

----------------------------------------------------------------------------
(* C7 *)

\* C7: narrow read has zero high bits.  For an event bound to a slot that is
\* not the primary of a chained pair, get returns the slot's 32-bit count
\* zero-extended, whatever the neighbouring slot was used for before.
C7_NarrowReadZeroExtended ==
    (last.op = "get" /\ last.value # NullPtr) =>
        LET bit == pmcnten_get_event_bit(bank, last.event)
        IN  (bit >= 0 /\ ~ChainedAt(bank, bit)) =>
                last.ret = bit /\ last.val = ULL(bank.cn[bit], Zero)

----------------------------------------------------------------------------
(* C8 *)

\* after a successful remove(E) the slot E was found in is disabled, and so
\* is its continuation if E was a chained pair; E, bound to that slot alone,
\* is no longer watched
RemovalUnbinds ==
    (last.op = "remove" /\ last.ret = PMU_RETURN_SUCCESS) =>
        LET bit == pmcnten_get_event_bit(Pre, last.event)
        IN  /\ bit \notin bank.en
            /\ ChainedAt(Pre, bit) => (bit + 1) \notin bank.en
            /\ SlotsOf(Pre, last.event) = {bit} => ~Watched(bank, last.event)

\* a call on an event that is not watched: get, read_32, reset and remove
\* return PMU_RETURN_EVENT_NO_WATCH
UnwatchedFails ==
    (last.op \in {"get", "read_32", "reset", "remove"} /\ ~Watched(Pre, last.event)) =>
        last.ret = PMU_RETURN_EVENT_NO_WATCH

\* C8: removal unbinds.  After a successful remove(E), for E bound to one
\* slot, that slot and the continuation of a chained pair are disabled; E
\* then stays unwatched until an add(E) succeeds, and while it is unwatched
\* get, read_32, reset and remove of E return PMU_RETURN_EVENT_NO_WATCH.
\* Stated of every step, with Pre the registers before the step.
C8_RemovalUnbinds ==
    /\ RemovalUnbinds
    /\ UnwatchedFails
    /\ \A e \in Events :
           (/\ ~Watched(Pre, e)
            /\ ~(last.op = "add" /\ last.event = e
                 /\ last.ret = PMU_RETURN_SUCCESS))
           => ~Watched(bank, e)

\* a chained pair has been removed: both its slots are disabled and its
\* event is no longer watched
C8_Witness ==
    /\ last.op = "remove"
    /\ last.ret = PMU_RETURN_SUCCESS
    /\ ChainedAt(Pre, pmcnten_get_event_bit(Pre, last.event))
    /\ SlotsOf(Pre, last.event) = {pmcnten_get_event_bit(Pre, last.event)}
    /\ bank.en \cap {pmcnten_get_event_bit(Pre, last.event),
                     pmcnten_get_event_bit(Pre, last.event) + 1} = {}
    /\ ~Watched(bank, last.event)

----------------------------------------------------------------------------
(* C9 *)

\* C9: removal preserves counts.  remove(E) changes no count register and
\* no event-type register; it only clears enable bits (none when it fails).
C9_RemovalPreservesCounts ==
    last.op = "remove" =>
        /\ bank.cn = Pre.cn
        /\ bank.ty = Pre.ty
        /\ bank.en \subseteq Pre.en
        /\ last.ret # PMU_RETURN_SUCCESS => bank.en = Pre.en

\* a chained pair counting 0x1FFFFFFFF has been removed and both raw counts
\* are still there
C9_Witness ==
    /\ last.op = "remove"
    /\ last.ret = PMU_RETURN_SUCCESS
    /\ LET bit == pmcnten_get_event_bit(Pre, last.event)
       IN  /\ ChainedAt(Pre, bit)
           /\ bit \notin bank.en
           /\ bank.cn[bit] = MaxU32
           /\ bank.cn[bit + 1] = One

----------------------------------------------------------------------------
(* C10 *)

\* C10: reset zeroes the logical counter.  After a successful reset(E) the
\* primary slot's count is 0 and so is the continuation's if E is a chained
\* pair, get(E) returns 0, no enable bit and no event-type register has
\* changed, and E is still watched.
C10_ResetZeroesCounter ==
    (last.op = "reset" /\ last.ret = PMU_RETURN_SUCCESS) =>
        LET bit == pmcnten_get_event_bit(Pre, last.event)
        IN  /\ bank.cn[bit] = Zero
            /\ ChainedAt(Pre, bit) => bank.cn[bit + 1] = Zero
            /\ bank.en = Pre.en
            /\ bank.ty = Pre.ty
            /\ Watched(bank, last.event)
            /\ \A r \in pmu_event_get_results(bank, last.event, TRUE) :
                   r.ret = bit /\ r.val = Zero

----------------------------------------------------------------------------
(* C11 *)

\* the last call was one of add, remove, reset, read_32 and get and returned
\* an error code
ErrorReturn ==
    /\ last.op \in {"add", "remove", "reset", "read_32", "get"}
    /\ last.ret \in {PMU_RETURN_EVENT_NO_WATCH, PMU_RETURN_EVENT_NO_AVAIL,
                     PMU_RETURN_NO_OPEN_SLOT, PMU_RETURN_EVENT_ALREADY,
                     PMU_RETURN_BAD_PTR}

\* C11: errors leave state unchanged.  After a call of add, remove, reset,
\* read_32 or get that returned an error code, the enable mask, every
\* event-type register, every count register and PMCR are as they were
\* before the call, and nothing was stored through the value pointer.
C11_ErrorsLeaveStateUnchanged ==
    ErrorReturn =>
        /\ bank = Pre
        /\ pmcr = last.pmcr
        /\ last.val = NoValue

\* an add of an event that is already watched, made where a slot was free,
\* has returned PMU_RETURN_EVENT_ALREADY and left the bank as it was
C11_Witness ==
    /\ last.op = "add"
    /\ last.ret = PMU_RETURN_EVENT_ALREADY
    /\ FreeSlots(Pre) # {}
    /\ Pre.cn[pmcnten_get_event_bit(Pre, last.event)] # Zero
    /\ bank = Pre

----------------------------------------------------------------------------
(* C12 *)

\* what save and restore are about: the enable mask, the event-type
\* registers, PMUSERENR and the PMCR flags
Config(m) == [en |-> m.en, ty |-> m.ty, ue |-> m.ue, cr |-> m.cr]

\* C12: capture/restore fixed point.  In the state pmu_load() leaves, a
\* pmu_unload() made at once puts the enable mask, every event-type register
\* 0..N-1, PMUSERENR and the PMCR flags back to what they were before the
\* pmu_load(), although pmu_load() has enabled the PMU.
C12_LoadUnloadFixedPoint ==
    last.op = "load" =>
        /\ PMCR_ENABLE_COUNTERS \subseteq pmcr.flags
        /\ Config(pmu_unload_result(machine)) = Config(captured)

\* pmu_load has enabled a PMU that was disabled, with counters enabled and
\* PMUSERENR set, and pmu_unload would disable it again
C12_Witness ==
    /\ last.op = "load"
    /\ ~(PMCR_ENABLE_COUNTERS \subseteq captured.cr)
    /\ PMCR_ENABLE_COUNTERS \subseteq pmcr.flags
    /\ captured.en # {}
    /\ captured.ue = One
    /\ pmu_unload_result(machine).cr = captured.cr

----------------------------------------------------------------------------
(* C13 *)

\* C13: disable-all clears everything.  After pmu_disable_all() every enable
\* bit, the cycle counter's included, is clear, every event count and the
\* cycle count are zero and PMCR's enable flag is clear, so that remove,
\* reset, read_32 and get of any event return PMU_RETURN_EVENT_NO_WATCH; the
\* enable bits are cleared first, then the counters zeroed, then the PMU
\* disabled.
C13_DisableAllClears ==
    last.op = "disable_all" =>
        /\ pmcnten = {}
        /\ \A i \in 0 .. (pmu_nevents - 1) : pmevcntr[i] = Zero
        /\ pmccntr = Zero
        /\ ~(PMCR_ENABLE_COUNTERS \subseteq pmcr.flags)
        /\ \A e \in Events :
               \A r \in pmu_event_remove_results(bank, e)
                         \cup pmu_event_reset_results(bank, e)
                         \cup pmu_event_read_32_results(bank, e, TRUE)
                         \cup pmu_event_get_results(bank, e, TRUE) :
                   r.ret = PMU_RETURN_EVENT_NO_WATCH
        /\ LET t == last.trace
           IN  /\ Len(t) = 5
               /\ t[2] = [t[1] EXCEPT !.en = {}]
               /\ t[3] = [t[2] EXCEPT !.cn = [i \in DOMAIN t[2].cn |-> Zero]]
               /\ t[4] = [t[3] EXCEPT !.cc = Zero]
               /\ t[5] = [t[4] EXCEPT !.cr = @ \ PMCR_ENABLE_COUNTERS]
               /\ Registers(machine) = t[5]

\* pmu_disable_all has been called with event counters and the cycle counter
\* enabled and counting and the PMU enabled
C13_Witness ==
    /\ last.op = "disable_all"
    /\ PMCNTEN_CYCLE_CTR \subseteq last.trace[1].en
    /\ 0 \in last.trace[1].en
    /\ last.trace[1].cn[0] # Zero
    /\ last.trace[1].cc # Zero
    /\ PMCR_ENABLE_COUNTERS \subseteq last.trace[1].cr
    /\ pmcnten = {}
    /\ pmccntr = Zero

----------------------------------------------------------------------------
(* C14 *)

\* no two enabled slots of bank b carry the same event type
UniqueBinding(b) ==
    \A i, j \in pmcnten_get(b) : i # j => EventTypeOf(b, i) # EventTypeOf(b, j)

\* the last call was an add of an available event on an all-free bank that
\* has room for it
AddOnFreeBank ==
    /\ last.op = "add"
    /\ AvailableRef(last.event)
    /\ pmcnten_get(Pre) = {}
    /\ Room(Pre, last.flags)

----------------------------------------------------------------------------
(* C15 *)

\* every enabled event counter of bank b is below N, and every enabled slot
\* that carries the chain marker follows an enabled slot that does not
ChainWellFormed(b) ==
    \A j \in b.en \ PMCNTEN_CYCLE_CTR :
        /\ j < pmu_nevents
        /\ EventTypeOf(b, j) = EVT_CHAIN =>
               /\ j >= 1
               /\ (j - 1) \in b.en
               /\ EventTypeOf(b, j - 1) # EVT_CHAIN

----------------------------------------------------------------------------
(* C16 *)

\* the slots whose registers the last call touched
SlotsTouched ==
    CASE last.op = "remove" -> pmu_event_remove_slots(Pre, last.event)
      [] last.op = "reset" -> pmu_event_reset_slots(Pre, last.event)
      [] last.op = "read_32" -> pmu_event_read_32_slots(Pre, last.event, last.value)
      [] last.op = "get" -> pmu_event_get_slots(Pre, last.event, last.value)
      [] OTHER -> {}

\* C16: slot accesses stay in bounds.  get, read_32, remove and reset touch
\* the event-type and count registers of slots below N only; a get of an
\* event bound at the last slot N-1 returns that slot's count zero-extended.
C16_SlotAccessInBounds ==
    /\ SlotsTouched \subseteq 0 .. (pmu_nevents - 1)
    /\ (/\ last.op = "get"
        /\ last.value # NullPtr
        /\ pmcnten_get_event_bit(Pre, last.event) = pmu_nevents - 1)
       => (/\ last.ret = pmu_nevents - 1
           /\ last.val = ULL(Pre.cn[pmu_nevents - 1], Zero))

----------------------------------------------------------------------------
(* C17 *)

\* C17: snapshot storage is large enough.  For every N that PMCR reports,
\* N is at most the capacity of state_pmevtype, pmu_load and pmu_unload index
\* the array inside it, and after pmu_load every slot 0..N-1 has its event
\* type in the array.
C17_SnapshotInBounds ==
    last.op \in {"load", "unload"} =>
        /\ pmu_nevents <= NEVENTS_ARCH_MAX
        /\ state_pmevtype_indices \subseteq DOMAIN state_pmevtype
        /\ last.op = "load" =>
               \A i \in 0 .. (pmu_nevents - 1) :
                   i \in DOMAIN state_pmevtype /\ state_pmevtype[i] = captured.ty[i]

----------------------------------------------------------------------------
(* C18 *)

\* C18: restore after arbitrary use.  After pmu_unload(), whatever was called
\* since pmu_load(), the enable mask, every event-type register 0..N-1,
\* PMUSERENR and the PMCR flags are what they were when pmu_load() was
\* called: counters enabled since are disabled, counters disabled since are
\* enabled.
C18_RestoreAfterUse ==
    last.op = "unload" => Config(machine) = Config(captured)

\* pmu_unload has been called after a use that disabled everything and then
\* set slot 0 to another event: the counters that were enabled at pmu_load
\* are enabled again, slot 0 is disabled again and has its event type back
C18_Witness ==
    /\ last.op = "unload"
    /\ last.trace[1].cc = Zero
    /\ last.trace[1].en = {0}
    /\ last.trace[1].ty[0] = EVT_L1D_CACHE
    /\ ~(PMCR_ENABLE_COUNTERS \subseteq last.trace[1].cr)
    /\ captured.en # {}
    /\ 0 \notin captured.en
    /\ PMCR_ENABLE_COUNTERS \subseteq captured.cr
    /\ Config(machine) = Config(captured)

----------------------------------------------------------------------------
(* C19 *)

\* C19: restore ordering.  pmu_unload() writes the N event-type registers
\* first, in the order of the slots, then the enable mask (set, then clear),
\* then PMUSERENR, and PMCR last: until that last write PMCR is as it was
\* before the call.
C19_RestoreOrdering ==
    last.op = "unload" =>
        LET t == last.trace
            n == pmu_nevents
        IN  /\ Len(t) = n + 5
            /\ \A k \in 1 .. n :
                   t[k + 1] = [t[k] EXCEPT !.ty[k - 1] = state_pmevtype[k - 1]]
            /\ t[n + 2] = [t[n + 1] EXCEPT !.en = @ \cup state_pmcnten]
            /\ t[n + 3] = [t[n + 2] EXCEPT !.en = state_pmcnten]
            /\ t[n + 4] = [t[n + 3] EXCEPT !.ue = state_pmuserenr]
            /\ t[n + 5] = [t[n + 4] EXCEPT !.cr = state_pmcr.flags]
            /\ \A k \in 1 .. (n + 4) : t[k].cr = t[1].cr
            /\ Registers(machine) = t[n + 5]

\* pmu_unload has been called where every kind of register had to change:
\* an event type, enable bits to set and to clear, and the PMCR enable flag
C19_Witness ==
    /\ last.op = "unload"
    /\ last.trace[1].ty # pmevtyper
    /\ pmcnten \ last.trace[1].en # {}
    /\ last.trace[1].en \ pmcnten # {}
    /\ last.trace[1].cr # pmcr.flags
    /\ last.trace[Len(last.trace) - 1].cr = last.trace[1].cr

----------------------------------------------------------------------------
(* C20 *)

\* C20: capture enables the PMU but records the prior flags.  After
\* pmu_load() state_pmcr holds the PMCR flags as they were before the call
\* and PMCR has the enable flag set and its other flags unchanged; no enable
\* bit, event-type register, count or PMUSERENR has changed.
C20_LoadFrame ==
    last.op = "load" =>
        /\ state_pmcr = [N |-> pmu_nevents, flags |-> captured.cr]
        /\ pmcr.flags = captured.cr \cup PMCR_ENABLE_COUNTERS
        /\ pmcnten = captured.en
        /\ pmevtyper = captured.ty
        /\ pmevcntr = captured.cn
        /\ pmccntr = captured.cc
        /\ pmuserenr = captured.ue

\* pmu_load has been called with the PMU disabled: the PMU is enabled and
\* the snapshot says it was not
C20_Witness ==
    /\ last.op = "load"
    /\ captured.cr = PMCR_CYCLE_COUNTER_64_BITS
    /\ pmcr.flags = PMCR_ENABLE_COUNTERS \cup PMCR_CYCLE_COUNTER_64_BITS
    /\ state_pmcr.flags = PMCR_CYCLE_COUNTER_64_BITS
    /\ pmevcntr[0] # Zero

----------------------------------------------------------------------------
(* C21 *)

\* the machine the last call, a restore, was made on: the registers before
\* the call and the snapshot, which a restore does not change
RestoredFrom ==
    [en |-> last.trace[1].en, ty |-> last.trace[1].ty, cn |-> last.trace[1].cn,
     cr |-> last.trace[1].cr, ue |-> last.trace[1].ue, cc |-> last.trace[1].cc,
     state_pmcr |-> state_pmcr, state_pmcnten |-> state_pmcnten,
     state_pmuserenr |-> state_pmuserenr, state_pmevtype |-> state_pmevtype]

AllCountsZero ==
    /\ \A i \in 0 .. (pmu_nevents - 1) : pmevcntr[i] = Zero
    /\ pmccntr = Zero

\* C21: reset variants.  After pmu_load_reset() and after pmu_unload_reset()
\* every event count and the cycle count are zero; pmu_unload_reset() leaves
\* the enable mask, the event-type registers, PMUSERENR and the PMCR flags
\* as pmu_unload() alone would: zeroing the counters does not disturb the
\* restored configuration.
C21_ResetVariants ==
    /\ last.op = "load_reset" => AllCountsZero
    /\ last.op = "unload_reset" =>
           /\ AllCountsZero
           /\ Config(machine) = Config(pmu_unload_result(RestoredFrom))
           /\ Config(machine) = Config(captured)

\* pmu_unload_reset has been called with an event counter and the cycle
\* counter counting and a configuration to restore that differs from the
\* one in use, PMCR flags included: the counts are zero and the
\* configuration is the captured one
C21_Witness ==
    /\ last.op = "unload_reset"
    /\ last.trace[1].cn[0] # Zero
    /\ last.trace[1].cc # Zero
    /\ last.trace[1].cr # captured.cr
    /\ last.trace[1].en # captured.en
    /\ captured.cr # {}
    /\ AllCountsZero
    /\ Config(machine) = Config(captured)

----------------------------------------------------------------------------
(* C22 *)

\* C22: error precedence in add.  pmu_event_add tests availability first,
\* then already-watched, then a free slot: an unavailable event gets
\* PMU_RETURN_EVENT_NO_AVAIL even when a slot carries its id or no slot is
\* free; an available, watched event gets PMU_RETURN_EVENT_ALREADY even when
\* no slot is free; PMU_RETURN_NO_OPEN_SLOT is returned only for an
\* available event that is not watched.
C22_AddErrorPrecedence ==
    last.op = "add" =>
        /\ ~AvailableRef(last.event) => last.ret = PMU_RETURN_EVENT_NO_AVAIL
        /\ (AvailableRef(last.event) /\ Watched(Pre, last.event)) =>
               last.ret = PMU_RETURN_EVENT_ALREADY
        /\ last.ret = PMU_RETURN_NO_OPEN_SLOT =>
               (AvailableRef(last.event) /\ ~Watched(Pre, last.event))

\* an add of an event the platform does not have, made where an enabled
\* slot carries that event's id and no slot is free, has returned
\* PMU_RETURN_EVENT_NO_AVAIL
C22_Witness ==
    /\ last.op = "add"
    /\ ~AvailableRef(last.event)
    /\ Watched(Pre, last.event)
    /\ FreeSlots(Pre) = {}
    /\ last.ret = PMU_RETURN_EVENT_NO_AVAIL

----------------------------------------------------------------------------
(* C23 *)

\* C23: operations touch only their own event's slots.  For an event bound
\* narrow at slot i (slot i + 1 is not its enabled continuation), a
\* successful remove or reset of the event changes neither the enable bit
\* nor the count of slot i + 1, whatever slot i + 1 holds: a chain marker
\* left over in a free slot, or another event.
C23_OwnSlotsOnly ==
    (last.op \in {"remove", "reset"} /\ last.ret = PMU_RETURN_SUCCESS) =>
        LET bit == pmcnten_get_event_bit(Pre, last.event)
        IN  (bit + 1 < pmu_nevents /\ ~ChainedAt(Pre, bit)) =>
                /\ ((bit + 1) \in bank.en) = ((bit + 1) \in Pre.en)
                /\ bank.cn[bit + 1] = Pre.cn[bit + 1]

----------------------------------------------------------------------------
(* C24 *)

\* C24: continuation slots are not addressable as events.  Where every
\* enabled slot that carries the chain marker is the continuation of a
\* chained pair, remove, reset, read_32 and get of EVT_CHAIN return
\* PMU_RETURN_EVENT_NO_WATCH and leave the bank, so every chained pair, as it
\* was, and add of EVT_CHAIN does not return PMU_RETURN_EVENT_ALREADY.
C24_ContinuationNotAddressable ==
    (last.event = EVT_CHAIN /\ ChainWellFormed(Pre)) =>
        /\ last.op \in {"remove", "reset", "read_32", "get"} =>
               (last.ret = PMU_RETURN_EVENT_NO_WATCH /\ bank = Pre)
        /\ last.op = "add" => last.ret # PMU_RETURN_EVENT_ALREADY

----------------------------------------------------------------------------
(* C25 *)

ErrorCodes ==
    {PMU_RETURN_EVENT_NO_WATCH, PMU_RETURN_EVENT_NO_AVAIL, PMU_RETURN_NO_OPEN_SLOT,
     PMU_RETURN_EVENT_ALREADY, PMU_RETURN_BAD_PTR}

\* the slots whose count register the last call, a read, has read
CountsRead ==
    IF last.op = "read_32"
    THEN pmu_event_read_32_counts(Pre, last.event, last.value)
    ELSE pmu_event_get_counts(Pre, last.event, last.value)

\* C25: absent output location.  read_32 and get called with a null value
\* pointer return PMU_RETURN_BAD_PTR for a watched event, without reading a
\* count register, and PMU_RETURN_EVENT_NO_WATCH for an unwatched event (the
\* watch test comes first).  On success both return the index of the slot
\* bound to the event, which is non-negative and no error code.
C25_NullValuePointer ==
    last.op \in {"read_32", "get"} =>
        /\ (last.value = NullPtr /\ Watched(Pre, last.event)) =>
               /\ last.ret = PMU_RETURN_BAD_PTR
               /\ CountsRead = {}
               /\ last.val = NoValue
        /\ (last.value = NullPtr /\ ~Watched(Pre, last.event)) =>
               last.ret = PMU_RETURN_EVENT_NO_WATCH
        /\ (last.value # NullPtr /\ Watched(Pre, last.event)) =>
               /\ last.ret = pmcnten_get_event_bit(Pre, last.event)
               /\ last.ret \in SlotsOf(Pre, last.event)
               /\ last.ret >= 0
               /\ last.ret \notin ErrorCodes
               /\ last.ret \in CountsRead

\* a get of a watched event with a null value pointer has returned
\* PMU_RETURN_BAD_PTR
C25_Witness ==
    /\ last.op = "get"
    /\ last.value = NullPtr
    /\ Watched(Pre, last.event)
    /\ Pre.cn[pmcnten_get_event_bit(Pre, last.event)] # Zero
    /\ last.ret = PMU_RETURN_BAD_PTR
    /\ last.val = NoValue

----------------------------------------------------------------------------
(* C26 *)

\* C26: event-type write/read round trip.  For every slot n < N, every
\* event id e and every prior content of event-type register n,
\* pmevtyper_set(n, e) followed by pmevtyper_get(n) returns exactly e, so
\* that the lookup finds an event just written to an enabled slot.
C26_TyperRoundTrip ==
    last.op = "typer_set_get" =>
        /\ last.ret = last.event
        /\ last.slot \in pmcnten_get(bank) => Watched(bank, last.event)
====
